---- MODULE Spec2Model ----
(***************************************************************************)
(* Model of allyapi.go: the API call pipeline (doAPICall and the           *)
(* background rate-limit goroutine it spawns, joined by main's wg.Wait),   *)
(* the polymorphic quote decoder quoteArray.UnmarshalJSON, and             *)
(* timestampToDate.                                                        *)
(*                                                                         *)
(* Strings are sequences of one-character strings.  JSON texts are         *)
(* sequences of lexical tokens: the one-byte tokens "[" "]" "{" "}" ","    *)
(* ":" stand for themselves, "a" and "b" stand for the JSON string         *)
(* literals "a" and "b", "null" for the literal null and "1" for a number. *)
(***************************************************************************)
EXTENDS Integers, Sequences, FiniteSets, TLC

\* ------------------------------------------------------------------ bounds
MaxCalls == 2     \* calls issued by the primary flow in Spec
MaxDocs == 2      \* JSON values in one response body
MaxPairs == 2     \* members of one quote object
MaxQuotes == 2    \* objects in one quote array
MaxLen == 5       \* characters of a timestamp string

\* --------------------------------------------------------- program constants
MainCalls == 1                 \* main issues one call (streamQuotes or getQuotes)
Threshold == 10                \* if ac.APICallsRemaining < 10
NanosPerSecond == 1000000000   \* time.Unix(sec, nsec) normalises on 1e9

\* ------------------------------------------------------------ strconv
Digits == {"0", "1", "2", "3", "4", "5", "6", "7", "8", "9"}

DigitVal(c) ==
    CASE c = "0" -> 0 [] c = "1" -> 1 [] c = "2" -> 2 [] c = "3" -> 3
      [] c = "4" -> 4 [] c = "5" -> 5 [] c = "6" -> 6 [] c = "7" -> 7
      [] c = "8" -> 8 [] c = "9" -> 9

RECURSIVE DigitsValue(_)
DigitsValue(s) ==
    IF s = <<>> THEN 0
    ELSE DigitsValue(SubSeq(s, 1, Len(s) - 1)) * 10 + DigitVal(s[Len(s)])

\* strconv.ParseInt(s, 10, 64) and strconv.Atoi(s): an optional sign, then
\* one or more decimal digits; a syntax error yields (0, err).  (A range
\* error needs 19 digits or more, beyond the strings enumerated here.)
ParseInt(s) ==
    LET signed == s /= <<>> /\ s[1] \in {"+", "-"}
        rest   == IF signed THEN Tail(s) ELSE s
        ok     == rest /= <<>> /\ \A i \in 1..Len(rest) : rest[i] \in Digits
    IN  IF ~ok THEN [val |-> 0, err |-> TRUE]
        ELSE [val |-> IF signed /\ s[1] = "-" THEN 0 - DigitsValue(rest)
                      ELSE DigitsValue(rest),
              err |-> FALSE]

Atoi(s) == ParseInt(s)

\* ------------------------------------------------------------ strings.Split
RECURSIVE Split(_)
Split(s) ==
    IF \A i \in 1..Len(s) : s[i] /= "."
    THEN <<s>>
    ELSE LET i == CHOOSE k \in 1..Len(s) :
                      s[k] = "." /\ \A j \in 1..(k - 1) : s[j] /= "."
         IN  <<SubSeq(s, 1, i - 1)>> \o Split(SubSeq(s, i + 1, Len(s)))

\* ------------------------------------------------------------ time.Unix
TruncDiv(a, b) == IF a >= 0 THEN a \div b ELSE 0 - ((0 - a) \div b)

Unix(sec, nsec) ==
    IF nsec < 0 \/ nsec >= NanosPerSecond
    THEN LET n  == TruncDiv(nsec, NanosPerSecond)
             s1 == sec + n
             n1 == nsec - n * NanosPerSecond
         IN  IF n1 < 0 THEN [sec |-> s1 - 1, nsec |-> n1 + NanosPerSecond]
             ELSE [sec |-> s1, nsec |-> n1]
    ELSE [sec |-> sec, nsec |-> nsec]

\* ------------------------------------------------------------ timestampToDate
\* timestampArr has two slots: a non-empty third (or later) part of the split
\* writes timestampArr[i] with i >= 2, an index-out-of-range panic.
timestampToDate(str) ==
    LET parts == Split(str)
        slot(i) == IF i <= Len(parts) /\ parts[i] /= <<>>
                   THEN ParseInt(parts[i])
                   ELSE [val |-> 0, err |-> FALSE]
    IN  IF \E i \in 3..Len(parts) : parts[i] /= <<>>
        THEN [panic |-> TRUE, logged |-> slot(1).err \/ slot(2).err,
              t |-> [sec |-> 0, nsec |-> 0]]
        ELSE [panic |-> FALSE, logged |-> slot(1).err \/ slot(2).err,
              t |-> Unix(slot(1).val, slot(2).val)]

\* ------------------------------------------------------------ encoding/json
StrToks == {"a", "b"}
Tokens == {"[", "]", "{", "}", ",", ":", "null", "1"} \cup StrToks

JVal(t, s, keys, kids) == [t |-> t, s |-> s, keys |-> keys, kids |-> kids]
ParseFail == [ok |-> FALSE, next |-> 0, val |-> JVal("null", "", <<>>, <<>>)]
ParseOk(n, v) == [ok |-> TRUE, next |-> n, val |-> v]

\* The scanner of encoding/json: one JSON value starting at token i.
RECURSIVE ParseValue(_, _), ParseElems(_, _, _), ParseMembers(_, _, _, _)
ParseValue(d, i) ==
    IF i > Len(d) THEN ParseFail
    ELSE IF d[i] \in StrToks THEN ParseOk(i + 1, JVal("str", d[i], <<>>, <<>>))
    ELSE IF d[i] = "null" THEN ParseOk(i + 1, JVal("null", "", <<>>, <<>>))
    ELSE IF d[i] = "1" THEN ParseOk(i + 1, JVal("num", "", <<>>, <<>>))
    ELSE IF d[i] = "["
         THEN IF i + 1 <= Len(d) /\ d[i + 1] = "]"
              THEN ParseOk(i + 2, JVal("arr", "", <<>>, <<>>))
              ELSE ParseElems(d, i + 1, <<>>)
    ELSE IF d[i] = "{"
         THEN IF i + 1 <= Len(d) /\ d[i + 1] = "}"
              THEN ParseOk(i + 2, JVal("obj", "", <<>>, <<>>))
              ELSE ParseMembers(d, i + 1, <<>>, <<>>)
    ELSE ParseFail

ParseElems(d, i, acc) ==
    LET r == ParseValue(d, i) IN
    IF ~r.ok \/ r.next > Len(d) THEN ParseFail
    ELSE IF d[r.next] = "," THEN ParseElems(d, r.next + 1, Append(acc, r.val))
    ELSE IF d[r.next] = "]"
         THEN ParseOk(r.next + 1, JVal("arr", "", <<>>, Append(acc, r.val)))
    ELSE ParseFail

ParseMembers(d, i, keys, acc) ==
    IF i + 1 > Len(d) \/ d[i] \notin StrToks \/ d[i + 1] /= ":" THEN ParseFail
    ELSE LET r == ParseValue(d, i + 2) IN
         IF ~r.ok \/ r.next > Len(d) THEN ParseFail
         ELSE IF d[r.next] = ","
              THEN ParseMembers(d, r.next + 1, Append(keys, d[i]), Append(acc, r.val))
         ELSE IF d[r.next] = "}"
              THEN ParseOk(r.next + 1,
                           JVal("obj", "", Append(keys, d[i]), Append(acc, r.val)))
         ELSE ParseFail

\* checkValid: the whole text is exactly one JSON value.
checkValid(d) == LET r == ParseValue(d, 1) IN r.ok /\ r.next = Len(d) + 1

EmptyMap == [k \in {} |-> ""]
MapSet(m, k, v) == [x \in DOMAIN m \cup {k} |-> IF x = k THEN v ELSE m[x]]

\* Storing a JSON object into a map[string]string: members in order, a
\* repeated key overwrites, a null member stores "", any other non-string
\* member is an UnmarshalTypeError.
RECURSIVE StoreMembers(_, _, _)
StoreMembers(keys, kids, m) ==
    IF keys = <<>> THEN m
    ELSE StoreMembers(Tail(keys), Tail(kids),
                      MapSet(m, Head(keys),
                             IF Head(kids).t = "str" THEN Head(kids).s ELSE ""))

\* json.Unmarshal(data, &mp) with mp map[string]string
UnmarshalMap(d) ==
    IF ~checkValid(d) THEN [err |-> TRUE, m |-> EmptyMap]
    ELSE LET v == ParseValue(d, 1).val IN
         IF v.t = "null" THEN [err |-> FALSE, m |-> EmptyMap]
         ELSE IF v.t /= "obj" THEN [err |-> TRUE, m |-> EmptyMap]
         ELSE [err |-> \E i \in 1..Len(v.kids) : v.kids[i].t \notin {"str", "null"},
               m |-> StoreMembers(v.keys, v.kids, EmptyMap)]

\* Storing one array element into a map[string]string slot (null leaves the
\* nil map, which has no entries).
StoreElem(v) ==
    IF v.t = "null" THEN [err |-> FALSE, m |-> EmptyMap]
    ELSE IF v.t /= "obj" THEN [err |-> TRUE, m |-> EmptyMap]
    ELSE [err |-> \E i \in 1..Len(v.kids) : v.kids[i].t \notin {"str", "null"},
          m |-> StoreMembers(v.keys, v.kids, EmptyMap)]

\* json.Unmarshal(data, &q) with q []map[string]string
UnmarshalSlice(d) ==
    IF ~checkValid(d) THEN [err |-> TRUE, q |-> <<>>]
    ELSE LET v == ParseValue(d, 1).val IN
         IF v.t = "null" THEN [err |-> FALSE, q |-> <<>>]
         ELSE IF v.t /= "arr" THEN [err |-> TRUE, q |-> <<>>]
         ELSE [err |-> \E i \in 1..Len(v.kids) : StoreElem(v.kids[i]).err,
               q |-> [i \in 1..Len(v.kids) |-> StoreElem(v.kids[i]).m]]

\* ------------------------------------------------------------ quoteArray
\* Variant whose '{' case decodes the mapping and forgets to store it: the
\* receiver is left as it was.
UnmarshalJSON_m(qa, data) ==
    IF Len(data) < 1 THEN [err |-> TRUE, qa |-> qa]
    ELSE IF data[1] = "["
         THEN LET r == UnmarshalSlice(data) IN
              IF r.err THEN [err |-> TRUE, qa |-> qa]
              ELSE [err |-> FALSE, qa |-> r.q]
    ELSE IF data[1] = "{"
         THEN LET r == UnmarshalMap(data) IN
              IF r.err THEN [err |-> TRUE, qa |-> qa]
              ELSE [err |-> FALSE, qa |-> qa]
    ELSE [err |-> FALSE, qa |-> qa]

\* (qa *quoteArray) UnmarshalJSON(data): qa is the receiver's value before
\* the call; the result is the returned error and the receiver's value after.
UnmarshalJSON(qa, data) ==
    IF Len(data) < 1 THEN [err |-> TRUE, qa |-> qa]
    ELSE IF data[1] = "["
         THEN LET r == UnmarshalSlice(data) IN
              IF r.err THEN [err |-> TRUE, qa |-> qa]
              ELSE [err |-> FALSE, qa |-> r.q]
    ELSE IF data[1] = "{"
         THEN LET r == UnmarshalMap(data) IN
              IF r.err THEN [err |-> TRUE, qa |-> qa]
              ELSE [err |-> FALSE, qa |-> <<r.m>>]
    ELSE [err |-> FALSE, qa |-> qa]

\* ------------------------------------------------------------ state
VARIABLES
    pc,                 \* position of the primary flow (main and the call it is in)
    ncalls,             \* calls to doAPICall started so far
    resp,               \* the http.Response of the call in progress
    pos,                \* index of the next JSON value of resp.body (0: no response)
    printed,            \* representations printed by the call in progress
    units,              \* the background goroutines spawned, in spawn order
    wg,                 \* counter of the WaitGroup wg
    mu,                 \* holder of ac.mu (index into units), 0 when unlocked
    APICallsRemaining,  \* ac.APICallsRemaining
    lastAcq,            \* history: the unit that locked ac.mu last, 0 if none
    panicking,          \* a goroutine panicked and the runtime is about to exit
    qShape, qSrc, qData, qPrev, qRes, qDone,   \* one run of UnmarshalJSON
    tsIn, tsRes, tsDone                        \* one run of timestampToDate

pipeVars == <<pc, ncalls, resp, pos, printed, units, wg, mu, APICallsRemaining,
              lastAcq, panicking>>
quoteVars == <<qShape, qSrc, qData, qPrev, qRes, qDone>>
timeVars == <<tsIn, tsRes, tsDone>>
vars == <<pipeVars, quoteVars, timeVars>>

\* ------------------------------------------------------------ responses
SeqsUpTo(S, n) == UNION {[1..k -> S] : k \in 0..n}

\* The raw quotes payload of one JSON value of a body: a single quote object,
\* an array of one quote, and an object with a non-string member (which
\* fails to decode).
DocPayloads ==
    { <<"{", "a", ":", "b", "}">>,
      <<"[", "{", "b", ":", "a", "}", "]">>,
      <<"{", "a", ":", "1", "}">> }

Bodies == SeqsUpTo(DocPayloads, MaxDocs)

\* resp.Header["X-Ratelimit-Remaining"] and resp.Header["X-Ratelimit-Expire"]:
\* the list of values of each header, empty when the header is absent.
Header(r, e) == [remaining |-> r, expire |-> e]
HeaderCases ==
    { Header(<<>>, <<>>),
      Header(<< <<"x">> >>, << <<"1", ".", "5">> >>),
      Header(<< <<"5">> >>, << <<"1", ".", "5">> >>),
      Header(<< <<"5">> >>, <<>>),
      Header(<< <<"5", "0">> >>, <<>>),
      Header(<< <<"5">> >>, << <<"1", ".", "2", ".", "3">> >>) }

Responses == [body : Bodies, hdr : HeaderCases]
NoResp == [body |-> <<>>, hdr |-> Header(<<>>, <<>>)]

\* decoder.Decode(&m) of one value: m is a fresh apiResponse, so the Quote
\* field starts nil; the value decodes iff its quotes payload does.
Decode(doc) == UnmarshalJSON(<<>>, doc)

Exited == pc \in {"exit0", "fatal", "crash"}

InitPipe ==
    /\ pc = "main" /\ ncalls = 0 /\ resp = NoResp /\ pos = 0 /\ printed = <<>>
    /\ units = <<>> /\ wg = 0 /\ mu = 0 /\ APICallsRemaining = 0
    /\ lastAcq = 0 /\ panicking = FALSE

InitQuoteIdle ==
    /\ qShape = "raw" /\ qSrc = <<>> /\ qData = <<>> /\ qPrev = <<>>
    /\ qRes = [err |-> FALSE, qa |-> <<>>] /\ qDone = FALSE

InitTimeIdle ==
    /\ tsIn = <<>> /\ tsDone = FALSE
    /\ tsRes = [panic |-> FALSE, logged |-> FALSE, t |-> [sec |-> 0, nsec |-> 0]]

Init == InitPipe /\ InitQuoteIdle /\ InitTimeIdle

\* ------------------------------------------------------------ doAPICall
\* Lines 94-129: the request is built and ac.Do(req) returns the response r.
StartCall(limit, r) ==
    /\ pc = "main" /\ ncalls < limit
    /\ ncalls' = ncalls + 1
    /\ resp' = r /\ pos' = 1 /\ printed' = <<>>
    /\ pc' = "loop"
    /\ UNCHANGED <<units, wg, mu, APICallsRemaining, lastAcq, panicking>>
    /\ UNCHANGED <<quoteVars, timeVars>>

\* Lines 123-126: ac.Do(req) fails and doAPICall returns the error.
DoFail(limit) ==
    /\ pc = "main" /\ ncalls < limit
    /\ ncalls' = ncalls + 1
    /\ resp' = NoResp /\ pos' = 0 /\ printed' = <<>>
    /\ pc' = "err"
    /\ UNCHANGED <<units, wg, mu, APICallsRemaining, lastAcq, panicking>>
    /\ UNCHANGED <<quoteVars, timeVars>>

\* Variant of the loop that prints the representation before looking at the
\* decode error.
DecodeNext_m ==
    /\ pc = "loop" /\ pos <= Len(resp.body)
    /\ LET d == Decode(resp.body[pos]) IN
       /\ printed' = Append(printed, d.qa)
       /\ IF d.err
          THEN pc' = "err" /\ pos' = pos
          ELSE pc' = pc /\ pos' = pos + 1
    /\ UNCHANGED <<ncalls, resp, units, wg, mu, APICallsRemaining, lastAcq, panicking>>
    /\ UNCHANGED <<quoteVars, timeVars>>

\* Lines 130-143: one iteration of the decoder loop.  A value that fails to
\* decode returns the error; otherwise its representation is printed.
DecodeNext ==
    /\ pc = "loop" /\ pos <= Len(resp.body)
    /\ LET d == Decode(resp.body[pos]) IN
       IF d.err
       THEN /\ pc' = "err"
            /\ UNCHANGED <<pos, printed>>
       ELSE /\ printed' = Append(printed, d.qa)
            /\ pos' = pos + 1
            /\ pc' = pc
    /\ UNCHANGED <<ncalls, resp, units, wg, mu, APICallsRemaining, lastAcq, panicking>>
    /\ UNCHANGED <<quoteVars, timeVars>>

NewUnit(c, h) ==
    [call |-> c, pc |-> "pending", hdr |-> h, wrote |-> <<>>,
     warned |-> FALSE, logged |-> FALSE]

\* Variant that schedules one unit per decoded value instead of one per call.
Spawn_m ==
    /\ pc = "loop" /\ pos > Len(resp.body)
    /\ wg' = wg + Len(resp.body)
    /\ units' = units \o [i \in 1..Len(resp.body) |-> NewUnit(ncalls, resp.hdr)]
    /\ pc' = "ret"
    /\ UNCHANGED <<ncalls, resp, pos, printed, mu, APICallsRemaining, lastAcq, panicking>>
    /\ UNCHANGED <<quoteVars, timeVars>>

\* Lines 150-166: decoder.More() is false; wg.Add(1) and the go statement.
Spawn ==
    /\ pc = "loop" /\ pos > Len(resp.body)
    /\ wg' = wg + 1
    /\ units' = Append(units, NewUnit(ncalls, resp.hdr))
    /\ pc' = "ret"
    /\ UNCHANGED <<ncalls, resp, pos, printed, mu, APICallsRemaining, lastAcq, panicking>>
    /\ UNCHANGED <<quoteVars, timeVars>>

\* Variant that joins the call's own unit before returning.
Return_m ==
    /\ pc = "ret"
    /\ \A u \in 1..Len(units) : units[u].call = ncalls => units[u].pc = "done"
    /\ pc' = "main"
    /\ resp' = NoResp /\ pos' = 0 /\ printed' = <<>>
    /\ UNCHANGED <<ncalls, units, wg, mu, APICallsRemaining, lastAcq, panicking>>
    /\ UNCHANGED <<quoteVars, timeVars>>

\* Line 168: return "", nil (and the caller prints the empty result).
Return ==
    /\ pc = "ret"
    /\ pc' = "main"
    /\ resp' = NoResp /\ pos' = 0 /\ printed' = <<>>
    /\ UNCHANGED <<ncalls, units, wg, mu, APICallsRemaining, lastAcq, panicking>>
    /\ UNCHANGED <<quoteVars, timeVars>>

\* ------------------------------------------------------------ main
\* Lines 293-295, 299-301: log.Fatalf on the error of a call.
Fatal ==
    /\ pc = "err"
    /\ pc' = "fatal"
    /\ UNCHANGED <<ncalls, resp, pos, printed, units, wg, mu, APICallsRemaining,
                   lastAcq, panicking>>
    /\ UNCHANGED <<quoteVars, timeVars>>

\* Line 305: main reaches wg.Wait().
Wait ==
    /\ pc = "main"
    /\ pc' = "wait"
    /\ UNCHANGED <<ncalls, resp, pos, printed, units, wg, mu, APICallsRemaining,
                   lastAcq, panicking>>
    /\ UNCHANGED <<quoteVars, timeVars>>

\* Lines 305-306: wg.Wait() returns once the counter is zero; main returns.
Exit ==
    /\ pc = "wait" /\ wg = 0
    /\ pc' = "exit0"
    /\ UNCHANGED <<ncalls, resp, pos, printed, units, wg, mu, APICallsRemaining,
                   lastAcq, panicking>>
    /\ UNCHANGED <<quoteVars, timeVars>>

\* The Go runtime ends the process after an unrecovered panic.
Crash ==
    /\ panicking /\ ~Exited
    /\ pc' = "crash"
    /\ UNCHANGED <<ncalls, resp, pos, printed, units, wg, mu, APICallsRemaining,
                   lastAcq, panicking>>
    /\ UNCHANGED <<quoteVars, timeVars>>

\* Variant without mutual exclusion: the goroutine proceeds without the lock
\* being free.
Lock_m(u) ==
    /\ ~Exited
    /\ units[u].pc = "pending"
    /\ mu' = u /\ lastAcq' = u
    /\ units' = [units EXCEPT ![u].pc = "locked"]
    /\ UNCHANGED <<pc, ncalls, resp, pos, printed, wg, APICallsRemaining, panicking>>
    /\ UNCHANGED <<quoteVars, timeVars>>

\* ------------------------------------------------------------ the goroutine
\* Lines 152-154: defer wg.Done(); ac.mu.Lock(); defer ac.mu.Unlock().
Lock(u) ==
    /\ ~Exited
    /\ units[u].pc = "pending" /\ mu = 0
    /\ mu' = u /\ lastAcq' = u
    /\ units' = [units EXCEPT ![u].pc = "locked"]
    /\ UNCHANGED <<pc, ncalls, resp, pos, printed, wg, APICallsRemaining, panicking>>
    /\ UNCHANGED <<quoteVars, timeVars>>

\* An index-out-of-range panic inside the goroutine: the deferred Unlock and
\* Done run, then the runtime ends the process.
PanicIn(u, w) ==
    /\ units' = [units EXCEPT ![u].pc = "panicked", ![u].warned = w]
    /\ mu' = 0
    /\ wg' = wg - 1
    /\ panicking' = TRUE

\* Lines 156-159: Header["X-Ratelimit-Remaining"][0] panics on an absent
\* header; otherwise Atoi's value (0 on error) is assigned to the counter and
\* an error is logged.
Store(u) ==
    /\ ~Exited
    /\ units[u].pc = "locked"
    /\ LET h == units[u].hdr.remaining IN
       IF h = <<>>
       THEN /\ PanicIn(u, FALSE)
            /\ UNCHANGED APICallsRemaining
       ELSE LET r == Atoi(h[1]) IN
            /\ APICallsRemaining' = r.val
            /\ units' = [units EXCEPT ![u].pc = "stored",
                                      ![u].wrote = <<r.val>>,
                                      ![u].logged = r.err]
            /\ UNCHANGED <<mu, wg, panicking>>
    /\ UNCHANGED <<pc, ncalls, resp, pos, printed, lastAcq>>
    /\ UNCHANGED <<quoteVars, timeVars>>

\* Variant with the comparison at line 161 reversed.
Check_m(u) ==
    /\ ~Exited
    /\ units[u].pc = "stored"
    /\ IF APICallsRemaining >= Threshold
       THEN LET e == units[u].hdr.expire IN
            IF e = <<>> \/ timestampToDate(e[1]).panic
            THEN PanicIn(u, TRUE)
            ELSE /\ units' = [units EXCEPT ![u].pc = "checked", ![u].warned = TRUE]
                 /\ UNCHANGED <<mu, wg, panicking>>
       ELSE /\ units' = [units EXCEPT ![u].pc = "checked"]
            /\ UNCHANGED <<mu, wg, panicking>>
    /\ UNCHANGED <<pc, ncalls, resp, pos, printed, APICallsRemaining, lastAcq>>
    /\ UNCHANGED <<quoteVars, timeVars>>

\* Lines 161-165: below the threshold the warning is printed, then the expire
\* header is indexed and converted (either of which may panic).
Check(u) ==
    /\ ~Exited
    /\ units[u].pc = "stored"
    /\ IF APICallsRemaining < Threshold
       THEN LET e == units[u].hdr.expire IN
            IF e = <<>> \/ timestampToDate(e[1]).panic
            THEN PanicIn(u, TRUE)
            ELSE /\ units' = [units EXCEPT ![u].pc = "checked", ![u].warned = TRUE]
                 /\ UNCHANGED <<mu, wg, panicking>>
       ELSE /\ units' = [units EXCEPT ![u].pc = "checked"]
            /\ UNCHANGED <<mu, wg, panicking>>
    /\ UNCHANGED <<pc, ncalls, resp, pos, printed, APICallsRemaining, lastAcq>>
    /\ UNCHANGED <<quoteVars, timeVars>>

\* The deferred calls on normal return: ac.mu.Unlock(), then wg.Done().
Finish(u) ==
    /\ ~Exited
    /\ units[u].pc = "checked"
    /\ units' = [units EXCEPT ![u].pc = "done"]
    /\ mu' = 0
    /\ wg' = wg - 1
    /\ UNCHANGED <<pc, ncalls, resp, pos, printed, APICallsRemaining, lastAcq, panicking>>
    /\ UNCHANGED <<quoteVars, timeVars>>

\* ------------------------------------------------------------ specifications
\* A primary flow that issues up to MaxCalls calls in sequence.
Next ==
    \/ \E r \in Responses : StartCall(MaxCalls, r)
    \/ DoFail(MaxCalls)
    \/ DecodeNext
    \/ Spawn
    \/ Return
    \/ Fatal
    \/ Wait
    \/ Exit
    \/ Crash
    \/ \E u \in 1..Len(units) : Lock(u)
    \/ \E u \in 1..Len(units) : Store(u)
    \/ \E u \in 1..Len(units) : Check(u)
    \/ \E u \in 1..Len(units) : Finish(u)

Spec == Init /\ [][Next]_vars

\* main as written: one call.
NextMain ==
    \/ \E r \in Responses : StartCall(MainCalls, r)
    \/ DoFail(MainCalls)
    \/ DecodeNext
    \/ Spawn
    \/ Return
    \/ Fatal
    \/ Wait
    \/ Exit
    \/ Crash
    \/ \E u \in 1..Len(units) : Lock(u)
    \/ \E u \in 1..Len(units) : Store(u)
    \/ \E u \in 1..Len(units) : Check(u)
    \/ \E u \in 1..Len(units) : Finish(u)

SpecMain == Init /\ [][NextMain]_vars

\* ------------------------------------------------------------ quote inputs
\* A quote is written down as a sequence of (key, value) members; RenderObj
\* and RenderArr give its JSON text and MapOfPairs the mapping it denotes.
Pairs == StrToks \X StrToks
PairSeqs == SeqsUpTo(Pairs, MaxPairs)

RECURSIVE RenderMembers(_)
RenderMembers(ps) ==
    IF ps = <<>> THEN <<>>
    ELSE <<ps[1][1], ":", ps[1][2]>>
         \o (IF Len(ps) > 1 THEN <<",">> ELSE <<>>) \o RenderMembers(Tail(ps))

RenderObj(ps) == <<"{">> \o RenderMembers(ps) \o <<"}">>

RECURSIVE RenderElems(_)
RenderElems(qs) ==
    IF qs = <<>> THEN <<>>
    ELSE RenderObj(qs[1])
         \o (IF Len(qs) > 1 THEN <<",">> ELSE <<>>) \o RenderElems(Tail(qs))

RenderArr(qs) == <<"[">> \o RenderElems(qs) \o <<"]">>

LastIndexOf(ps, k) == CHOOSE i \in 1..Len(ps) :
                          ps[i][1] = k /\ \A j \in (i + 1)..Len(ps) : ps[j][1] /= k
MapOfPairs(ps) ==
    [k \in {ps[i][1] : i \in 1..Len(ps)} |-> ps[LastIndexOf(ps, k)][2]]

\* Raw quotes values that are not an object or array of string members.
RawInputs ==
    { <<>>, <<"null">>, <<"a">>, <<"1">>, <<"{">>, <<"[">>, <<"]">>,
      <<"{", "a", ":", "1", "}">>, <<"{", "a", ":", "null", "}">>,
      <<"[", "1", "]">>, <<"[", "null", "]">>,
      <<"{", "a", ":", "b", "}", "}">>, <<"[", "{", "}", ",", "]">>,
      <<"{", "a", "b", "}">>, <<"[", "[", "]", "]">> }

\* The receiver's value before the call: nil, or a quote decoded earlier.
PrevQuotes == { <<>>, <<MapOfPairs(<< <<"b", "b">> >>)>> }

InitQuote ==
    /\ InitPipe /\ InitTimeIdle
    /\ qDone = FALSE /\ qRes = [err |-> FALSE, qa |-> <<>>]
    /\ qPrev \in PrevQuotes
    /\ \/ \E ps \in PairSeqs :
             qShape = "obj" /\ qSrc = <<ps>> /\ qData = RenderObj(ps)
       \/ \E qs \in SeqsUpTo(PairSeqs, MaxQuotes) :
             qShape = "arr" /\ qSrc = qs /\ qData = RenderArr(qs)
       \/ \E d \in RawInputs :
             qShape = "raw" /\ qSrc = <<>> /\ qData = d

\* One call qa.UnmarshalJSON(qData) on a receiver holding qPrev.
CallUnmarshalJSON ==
    /\ ~qDone
    /\ qRes' = UnmarshalJSON(qPrev, qData)
    /\ qDone' = TRUE
    /\ UNCHANGED <<qShape, qSrc, qData, qPrev, pipeVars, timeVars>>

NextQuote == CallUnmarshalJSON

SpecQuote == InitQuote /\ [][NextQuote]_vars

\* ------------------------------------------------------------ timestamp inputs
TsAlphabet == {"1", "5", ".", "-"}
TsExample ==
    <<"1", "6", "0", "9", "4", "5", "9", "2", "0", "0", ".",
      "5", "0", "0", "0", "0", "0", "0", "0", "0">>
TsInputs == SeqsUpTo(TsAlphabet, MaxLen) \cup {TsExample}

InitTime ==
    /\ InitPipe /\ InitQuoteIdle
    /\ tsIn \in TsInputs
    /\ tsDone = FALSE
    /\ tsRes = [panic |-> FALSE, logged |-> FALSE, t |-> [sec |-> 0, nsec |-> 0]]

\* One call timestampToDate(tsIn).
CallTimestampToDate ==
    /\ ~tsDone
    /\ tsRes' = timestampToDate(tsIn)
    /\ tsDone' = TRUE
    /\ UNCHANGED <<tsIn, pipeVars, quoteVars>>

NextTime == CallTimestampToDate

SpecTime == InitTime /\ [][NextTime]_vars

\* ------------------------------------------------------------ properties
UnitIds == 1..Len(units)
UnitsOfCall(c) == {u \in UnitIds : units[u].call = c}
InCritical(u) == units[u].pc \in {"locked", "stored", "checked"}
RemainingUnusable(h) == h.remaining = <<>> \/ Atoi(h.remaining[1]).err

\* C1: whenever the process has exited, by main's return, by log.Fatalf or by
\* a crash, every background unit that was spawned has run to completion.
C1_JoinBeforeExit ==
    Exited => \A u \in UnitIds : units[u].pc = "done"

\* C2: a unit whose X-Ratelimit-Remaining header is missing or unparseable
\* logs the error, does not panic, emits no warning and leaves
\* APICallsRemaining as it was (it writes nothing).
C2_ParseErrorRecoverable ==
    \A u \in UnitIds :
        (RemainingUnusable(units[u].hdr)
            /\ units[u].pc \in {"stored", "checked", "done", "panicked"})
        => /\ units[u].pc /= "panicked"
           /\ units[u].logged
           /\ ~units[u].warned
           /\ units[u].wrote = <<>>

\* C3 (as stated): when decoding a value of the body fails, nothing of that
\* body has been printed; something is printed only if every value decodes.
C3_NoPartialOutput ==
    /\ (pc = "err" /\ pos >= 1) => printed = <<>>
    /\ printed /= <<>> => \A i \in 1..Len(resp.body) : ~Decode(resp.body[i]).err

\* C3 (amended): when decoding the k-th value fails, doAPICall returns the
\* error having printed exactly the k-1 values before it, in order, and
\* having spawned no unit; all values of a body are printed only when every
\* value decodes.
C3_PrefixPrinted ==
    /\ (pc = "err" /\ pos >= 1) =>
          /\ Decode(resp.body[pos]).err
          /\ printed = [i \in 1..(pos - 1) |-> Decode(resp.body[i]).qa]
          /\ UnitsOfCall(ncalls) = {}
    /\ (pc \in {"loop", "ret"} /\ Len(printed) = Len(resp.body)) =>
          \A i \in 1..Len(resp.body) : ~Decode(resp.body[i]).err

C3_Witness ==
    pc = "err" /\ pos = 2 /\ Len(printed) = 1

\* C4: a unit whose X-Ratelimit-Remaining header parses to v sets
\* APICallsRemaining to v, and once it has completed it has emitted the
\* warning iff v < 10 (5: stored and warned; 50: stored, no warning).
C4_StoreAndWarn ==
    \A u \in UnitIds :
        ~RemainingUnusable(units[u].hdr) =>
            LET v == Atoi(units[u].hdr.remaining[1]).val IN
            /\ units[u].pc \in {"stored", "checked"} => APICallsRemaining = v
            /\ units[u].pc \in {"stored", "checked", "done"} => units[u].wrote = <<v>>
            /\ units[u].pc = "done" => (units[u].warned <=> v < 10)
            /\ (units[u].pc = "done" /\ units[u].hdr.remaining = << <<"5">> >>)
                  => units[u].wrote = <<5>> /\ units[u].warned
            /\ (units[u].pc = "done" /\ units[u].hdr.remaining = << <<"5", "0">> >>)
                  => units[u].wrote = <<50>> /\ ~units[u].warned

C4_Witness ==
    \E u, w \in UnitIds :
        /\ units[u].pc = "done" /\ units[u].wrote = <<5>> /\ units[u].warned
        /\ units[w].pc = "done" /\ units[w].wrote = <<50>> /\ ~units[w].warned

\* C5 (as stated): a call whose body holds two JSON documents has, when it
\* returns, printed exactly the two representations in arrival order and
\* scheduled exactly two rate-limit updates.
C5_TwoPrintedTwoUpdates ==
    (pc = "ret" /\ Len(resp.body) = 2) =>
        /\ printed = <<Decode(resp.body[1]).qa, Decode(resp.body[2]).qa>>
        /\ Cardinality(UnitsOfCall(ncalls)) = 2

\* C5 (amended): a call whose body holds two JSON documents has, when it
\* returns, printed exactly the two representations in arrival order and
\* scheduled exactly one rate-limit update.
C5_TwoPrintedOneUpdate ==
    (pc = "ret" /\ Len(resp.body) = 2) =>
        /\ printed = <<Decode(resp.body[1]).qa, Decode(resp.body[2]).qa>>
        /\ Cardinality(UnitsOfCall(ncalls)) = 1

C5_Witness ==
    /\ pc = "ret" /\ Len(resp.body) = 2 /\ Len(printed) = 2
    /\ printed[1] /= printed[2]

\* C6: once the unit is spawned, doAPICall's return is possible whatever the
\* state of the mutex and of the unit: it never waits for either.
C6_ReturnNotBlocked ==
    pc = "ret" => ENABLED Return

\* The call has returned, its own unit is still pending and the mutex is held
\* by the unit of an earlier call.
C6_Witness ==
    /\ pc = "main" /\ ncalls >= 1
    /\ \E u \in UnitsOfCall(ncalls) :
          units[u].pc = "pending" /\ mu /= 0 /\ mu /= u

\* C7: APICallsRemaining is written only by the unit holding the mutex; at
\* most one unit is between Lock and Unlock; a unit holds the mutex exactly
\* while it is there (so it has released it when it ends); and when all
\* units have completed the counter is the value stored by the unit that
\* acquired the mutex last.
C7_MutexInv ==
    /\ Cardinality({u \in UnitIds : InCritical(u)}) <= 1
    /\ \A u \in UnitIds : InCritical(u) <=> mu = u
    /\ mu \in 0..Len(units)
    /\ (units /= <<>> /\ \A u \in UnitIds : units[u].pc = "done") =>
          /\ lastAcq \in UnitIds
          /\ <<APICallsRemaining>> = units[lastAcq].wrote

C7_WriteUnderLock ==
    /\ APICallsRemaining' /= APICallsRemaining =>
          /\ mu /= 0 /\ mu' = mu
          /\ units'[mu].wrote = <<APICallsRemaining'>>
    /\ \A u \in UnitIds : units'[u].wrote /= units[u].wrote => mu = u /\ mu' = u

C7_Serialized == [] C7_MutexInv /\ [][C7_WriteUnderLock]_vars

C7_Witness ==
    /\ Len(units) = 2 /\ \A u \in UnitIds : units[u].pc = "done"
    /\ lastAcq = 1
    /\ units[1].wrote /= units[2].wrote

\* C8: decoding a quote object o gives a one-element sequence, the same
\* result as decoding the array [o]; decoding an array of n quote objects
\* gives their n mappings in the same order.
C8_ObjectArrayEquivalence ==
    /\ (qDone /\ qShape = "obj") =>
          /\ ~qRes.err
          /\ Len(qRes.qa) = 1
          /\ qRes = UnmarshalJSON(qPrev, <<"[">> \o qData \o <<"]">>)
    /\ (qDone /\ qShape = "arr") =>
          /\ ~qRes.err
          /\ qRes.qa = [i \in 1..Len(qSrc) |-> MapOfPairs(qSrc[i])]

C8_Witness ==
    /\ qDone /\ qShape = "obj" /\ Len(qSrc[1]) = 2
    /\ qSrc[1][1][1] /= qSrc[1][2][1]
    /\ qRes.qa = <<MapOfPairs(qSrc[1])>>

\* C9: a raw quotes value that is empty or starts with neither '[' nor '{'
\* makes UnmarshalJSON return an error.
C9_RejectsOtherLeadingByte ==
    (qDone /\ (qData = <<>> \/ qData[1] \notin {"[", "{"})) => qRes.err

\* C10: timestampToDate never panics, and on "S.N" with S and N digit
\* strings it returns the instant S seconds plus N nanoseconds.
IsDigits(s) == s /= <<>> /\ \A i \in 1..Len(s) : s[i] \in Digits
DotAt(s, k) == s[k] = "." /\ \A j \in 1..Len(s) : s[j] = "." => j = k
C10_ExactAndTotal ==
    tsDone =>
        /\ ~tsRes.panic
        /\ \A k \in 1..Len(tsIn) :
              (DotAt(tsIn, k) /\ IsDigits(SubSeq(tsIn, 1, k - 1))
                              /\ IsDigits(SubSeq(tsIn, k + 1, Len(tsIn))))
              => LET S == DigitsValue(SubSeq(tsIn, 1, k - 1))
                     N == DigitsValue(SubSeq(tsIn, k + 1, Len(tsIn)))
                 IN  tsRes.t = [sec |-> S + (N \div NanosPerSecond),
                                nsec |-> N % NanosPerSecond]

====
